---------------------------- MODULE Spec2Model ----------------------------
(***************************************************************************)
(* QuizApp (Django): the quiz session state machine of quiz/views.py, the  *)
(* selection form of quiz/forms.py and the Quiz model of quiz/models.py.   *)
(*                                                                         *)
(* Every request handler is a sequence of steps, one per access to the     *)
(* database or the session store, so that requests served by different     *)
(* workers interleave between their reads and their writes.  The model     *)
(* follows one quiz session: quiz id 1 is the quiz that user u1 starts,    *)
(* id 2 is a quiz that does not exist, u2 is a user who owns no quiz.      *)
(* Spec allows MaxReqs requests in flight and serves MaxRequests requests  *)
(* in a run; SpecSeq serves any number of requests, one at a time.         *)
(* SpecResend is SpecSeq and SpecRace is Spec, each with a record of the   *)
(* requests sent that its property is about.                               *)
(* SpecAdmin is SpecSeq with the admin site's add-quiz form, SpecLogout is *)
(* SpecSeq with the logout view, SpecLive is SpecSeq with every handler    *)
(* running to its end.                                                     *)
(***************************************************************************)
EXTENDS Integers, Sequences, FiniteSets, TLC

(***************************************************************************)
(* Bounds of the model.                                                    *)
(***************************************************************************)
MaxReqs == 2           \* requests that may be in flight together
MaxRequests == 3       \* take_quiz and quiz_results requests served in a run of Spec
MaxCount == 2          \* largest num_questions a start request asks for
NumQuestions == 2      \* Question rows of the content store

(***************************************************************************)
(* Program constants.                                                      *)
(***************************************************************************)
MinNumQuestions == 1   \* forms.py: num_questions min_value
MaxNumQuestions == 50  \* forms.py: num_questions max_value

Users == {"u1", "u2"}
Reqs == 1..MaxReqs
QuizIds == {1}          \* the quiz the model follows
RequestIds == {1, 2}    \* the quiz ids requests name: 2 never exists
Owners == {"u1"}        \* the users who start a quiz
QuestionIds == 1..NumQuestions
None == "None"

(***************************************************************************)
(* Content store: Book -> Chapter -> Question (models.py), read-only for   *)
(* the quiz engine.  Book b1 owns chapters c1 and c2, book b2 owns the     *)
(* empty chapter c3.  Strings that the code transforms are sequences of    *)
(* characters.                                                             *)
(***************************************************************************)
Books == {"b1", "b2"}
Chapters == {"c1", "c2", "c3"}
Difficulties == {"easy", "medium", "hard"}

ChapterBook(c) == IF c = "c3" THEN "b2" ELSE "b1"

QuestionChapter(q) == IF q % 3 = 0 THEN "c2" ELSE "c1"

QuestionDifficulty(q) == IF q % 2 = 1 THEN "easy" ELSE "hard"

QuestionCorrectAnswer(q) == IF q % 2 = 1 THEN <<"A">> ELSE <<"b">>

(***************************************************************************)
(* str.lower() and str.strip() on character sequences.                     *)
(***************************************************************************)
LowerChar(c) ==
    CASE c = "A" -> "a"
      [] c = "B" -> "b"
      [] OTHER -> c

Lower(s) == [i \in DOMAIN s |-> LowerChar(s[i])]

IsSpace(c) == c = " "

RECURSIVE LStrip(_)
LStrip(s) == IF s # <<>> /\ IsSpace(Head(s)) THEN LStrip(Tail(s)) ELSE s

RECURSIVE RStrip(_)
RStrip(s) ==
    IF s # <<>> /\ IsSpace(s[Len(s)]) THEN RStrip(SubSeq(s, 1, Len(s) - 1)) ELSE s

Strip_Identity(s) == s

Strip(s) == RStrip(LStrip(s))

get_questions_for_source_NoFilter(source, difficulty) ==
    IF source[1] = "chapter"
      THEN {q \in QuestionIds : QuestionChapter(q) = source[2]}
      ELSE {q \in QuestionIds : ChapterBook(QuestionChapter(q)) = source[2]}

(***************************************************************************)
(* get_questions_for_source(source, difficulty): the eligible set.         *)
(* A source is <<"chapter", c>> or <<"book", b>>.                          *)
(***************************************************************************)
get_questions_for_source(source, difficulty) ==
    LET qs == IF source[1] = "chapter"
                THEN {q \in QuestionIds : QuestionChapter(q) = source[2]}
                ELSE IF source[1] = "book"
                  THEN {q \in QuestionIds : ChapterBook(QuestionChapter(q)) = source[2]}
                  ELSE {}
    IN  IF difficulty # "all"
          THEN {q \in qs : QuestionDifficulty(q) = difficulty}
          ELSE qs

RandomSample_Whole(population, n) ==
    LET m == Cardinality(population)
    IN  {s \in [1..m -> population] : \A i, j \in 1..m : i # j => s[i] # s[j]}

(***************************************************************************)
(* random.sample(list(questions_qs), num_questions): every ordered         *)
(* selection of n distinct members of the population is a possible result. *)
(***************************************************************************)
RandomSample(population, n) ==
    {s \in [1..n -> population] : \A i, j \in 1..n : i # j => s[i] # s[j]}

VARIABLES
    quiz,          \* Quiz rows, quiz[id] (models.Quiz)
    answers,       \* QuizAnswer rows (no uniqueness constraint)
    qstatus,       \* QuizQuestionStatus rows, unique per (quiz, question)
    session,       \* session store: session[user] maps keys to values
    req,           \* the requests in flight: position and local variables
    resp,          \* the response the last step sent, NoResponse if it sent none
    now,           \* timezone.now(), a logical clock
    sealWrites,    \* per quiz, how many requests executed lines 463-468
    served,        \* requests begun in a run of Spec
    applied,       \* SpecResend: the submit request last sent and what it left
    batch          \* SpecRace: the requests that overlap and the state they started from

vars == <<quiz, answers, qstatus, session, req, resp, now, sealWrites, served,
          applied, batch>>


NullScore == <<>>      \* Quiz.score is NULL until the quiz is sealed
NullTime == 0          \* Quiz.end_time is NULL until the quiz is sealed
NoRow == "none"        \* no QuizQuestionStatus row for the pair

Statuses == {"unattempted", "attempted", "marked_for_review", "answered_and_marked"}

(***************************************************************************)
(* Session store (request.session): a dictionary per user.                 *)
(***************************************************************************)
QuestionsKey(id) == <<"questions", id>>
CurrentKey(id) == <<"current", id>>

SessionGet(u, key, default) ==
    IF key \in DOMAIN session[u] THEN session[u][key] ELSE default

SessionSet(s, key, val) == (key :> val) @@ s

SessionPop(s, keys) == [k \in (DOMAIN s) \ keys |-> s[k]]

(***************************************************************************)
(* Responses.  n carries the count a message reports, body the context of  *)
(* a rendered results page.                                                *)
(***************************************************************************)
Response(view, user, id, kind, msg, n) ==
    [view |-> view, user |-> user, quiz |-> id, kind |-> kind, msg |-> msg,
     n |-> n, body |-> <<>>]

NoResponse == Response("-", "-", 0, "-", "-", -1)

(***************************************************************************)
(* QuizSelectionForm: field validation, then clean().                      *)
(***************************************************************************)
NumChoices == (0..MaxCount) \cup {MaxNumQuestions + 1}

\* The forms posted to the URL of a source: those of the URL's own quiz type,
\* with or without the selection of the source, and those of the other quiz
\* type, with or without a selection of that type.
StartForms(source) ==
    [quiz_type : {source[1]},
     chapter : IF source[1] = "chapter" THEN {None, source[2]} ELSE {None},
     book : IF source[1] = "book" THEN {None, source[2]} ELSE {None},
     num_questions : NumChoices,
     difficulty : {"all"} \cup Difficulties]
    \cup
    [quiz_type : {"chapter", "book"} \ {source[1]},
     chapter : IF source[1] = "chapter" THEN {source[2]} ELSE {None, "c1"},
     book : IF source[1] = "book" THEN {source[2]} ELSE {None, "b1"},
     num_questions : NumChoices,
     difficulty : {"all"} \cup Difficulties]

FieldsValid(form, chapterQS, bookQS) ==
    /\ form.quiz_type \in {"chapter", "book"}
    /\ form.chapter = None \/ form.chapter \in chapterQS
    /\ form.book = None \/ form.book \in bookQS
    /\ form.num_questions >= MinNumQuestions
    /\ form.num_questions <= MaxNumQuestions
    /\ form.difficulty \in {"all"} \cup Difficulties

FormClean_ReportsRequested(form) ==
    LET available_questions ==
            IF form.quiz_type = "chapter" /\ form.chapter # None
              THEN Cardinality(get_questions_for_source(<<"chapter", form.chapter>>, form.difficulty))
              ELSE IF form.quiz_type = "book" /\ form.book # None
                THEN Cardinality(get_questions_for_source(<<"book", form.book>>, form.difficulty))
                ELSE 0
    IN  IF form.quiz_type = "chapter" /\ form.chapter = None
          THEN [msg |-> "select_chapter", n |-> -1]
          ELSE IF form.quiz_type = "book" /\ form.book = None
            THEN [msg |-> "select_book", n |-> -1]
            ELSE IF /\ form.num_questions # 0
                    /\ available_questions > 0
                    /\ form.num_questions > available_questions
              THEN [msg |-> "only_available", n |-> form.num_questions]
              ELSE [msg |-> "ok", n |-> -1]

\* QuizSelectionForm.clean: the message of the ValidationError it raises,
\* or "ok"
FormClean(form) ==
    LET available_questions ==
            IF form.quiz_type = "chapter" /\ form.chapter # None
              THEN Cardinality(get_questions_for_source(<<"chapter", form.chapter>>, form.difficulty))
              ELSE IF form.quiz_type = "book" /\ form.book # None
                THEN Cardinality(get_questions_for_source(<<"book", form.book>>, form.difficulty))
                ELSE 0
    IN  IF form.quiz_type = "chapter" /\ form.chapter = None
          THEN [msg |-> "select_chapter", n |-> -1]
          ELSE IF form.quiz_type = "book" /\ form.book = None
            THEN [msg |-> "select_book", n |-> -1]
            ELSE IF /\ form.num_questions # 0
                    /\ available_questions > 0
                    /\ form.num_questions > available_questions
              THEN [msg |-> "only_available", n |-> available_questions]
              ELSE [msg |-> "ok", n |-> -1]

\* form.is_valid()
FormCheck(form, chapterQS, bookQS) ==
    IF ~FieldsValid(form, chapterQS, bookQS)
      THEN [msg |-> "field_error", n |-> -1]
      ELSE FormClean(form)

\* Quiz.objects.create(user, chapter | book, total_questions)
NewQuiz(user, chapter, book, total_questions) ==
    [user |-> user, chapter |-> chapter, book |-> book,
     total_questions |-> total_questions,
     end_time |-> NullTime, score |-> NullScore,
     correct_answers |-> 0, is_completed |-> FALSE]

QuizConstraint_Off(q) == TRUE

\* Meta.constraints quiz_either_chapter_or_book
QuizConstraint(q) ==
    \/ q.chapter # None /\ q.book = None
    \/ q.chapter = None /\ q.book # None

\* no submit request is being followed
NoApplied ==
    [n |-> 0, user |-> "-", quiz |-> 0, answer |-> <<>>, answers |-> {}, qstatus |-> <<>>]

\* no request has modified a question yet
NoBatch == [base |-> <<>>, ops |-> <<>>]

IdleReq ==
    [pc |-> "idle", view |-> "-", user |-> "-", quiz |-> 0, action |-> "-",
     question |-> 0, current_index |-> 0, qlen |-> 0, user_answer |-> <<>>,
     st |-> "-", row |-> 0, correct |-> 0, wrong |-> 0, msg |-> "-"]

Init ==
    /\ quiz = <<>>
    /\ answers = {}
    /\ qstatus = [p \in QuizIds \X QuestionIds |-> NoRow]
    /\ session = [u \in Users |-> <<>>]
    /\ req = [r \in Reqs |-> IdleReq]
    /\ resp = NoResponse
    /\ now = 0
    /\ sealWrites = [id \in QuizIds |-> 0]
    /\ served = 0
    /\ applied = NoApplied
    /\ batch = NoBatch

(***************************************************************************)
(* start_quiz / start_book_quiz (POST).  source is the chapter or the book *)
(* of the URL; the form is the posted data.                                *)
(***************************************************************************)
StartFrom(view, user, source, form, chapterQS, bookQS) ==
    LET check == FormCheck(form, chapterQS, bookQS)
        num_questions == form.num_questions
        questions_qs == get_questions_for_source(source, form.difficulty)
        id == Len(quiz) + 1
        created == NewQuiz(user,
                           IF source[1] = "chapter" THEN source[2] ELSE None,
                           IF source[1] = "book" THEN source[2] ELSE None,
                           num_questions)
    IN  /\ quiz = <<>>
        /\ UNCHANGED <<answers, qstatus, req, now, sealWrites>>
        /\ IF check.msg # "ok"
             THEN /\ resp' = Response(view, user, 0, "form_error", check.msg, check.n)
                  /\ UNCHANGED <<quiz, session>>
             ELSE IF Cardinality(questions_qs) < num_questions
               THEN /\ resp' = Response(view, user, 0, "error", "only_available",
                                        Cardinality(questions_qs))
                    /\ UNCHANGED <<quiz, session>>
               ELSE /\ QuizConstraint(created)
                    /\ quiz' = Append(quiz, created)
                    /\ \E questions \in RandomSample(questions_qs, num_questions) :
                         session' = [session EXCEPT ![user] =
                             SessionSet(SessionSet(@, QuestionsKey(id), questions),
                                        CurrentKey(id), 0)]
                    /\ resp' = Response(view, user, id, "redirect", "take_quiz", -1)

start_quiz(user, chapter_id, form) ==
    StartFrom("start_quiz", user, <<"chapter", chapter_id>>, form, {chapter_id}, Books)

start_book_quiz(user, book_id, form) ==
    StartFrom("start_book_quiz", user, <<"book", book_id>>, form, Chapters, {book_id})

StartQuiz ==
    \E u \in Owners, c \in Chapters :
      \E f \in StartForms(<<"chapter", c>>) : start_quiz(u, c, f)

StartBookQuiz ==
    \E u \in Owners, b \in Books :
      \E f \in StartForms(<<"book", b>>) : start_book_quiz(u, b, f)


(***************************************************************************)
(* QuizAnswer rows.  A row is identified by (quiz, question, id); a new    *)
(* row takes the smallest id that no row and no request in flight holds.   *)
(***************************************************************************)
RowIds == 1..(2 * MaxReqs)

Rows(id, question) == {a \in answers : a.quiz = id /\ a.question = question}

FreshRowId(id, question) ==
    LET used == {a.id : a \in Rows(id, question)}
                \cup {req[r].row : r \in {x \in Reqs : /\ req[x].quiz = id
                                                       /\ req[x].question = question}}
    IN  CHOOSE i \in RowIds \ used : \A j \in RowIds \ used : i <= j

IsCorrect_CaseSensitive(user_answer, question) ==
    user_answer = QuestionCorrectAnswer(question)

\* line 347
IsCorrect(user_answer, question) ==
    Lower(user_answer) = Lower(QuestionCorrectAnswer(question))

AnswerRow(id, question, rowid, user_answer) ==
    [quiz |-> id, question |-> question, id |-> rowid,
     user_answer |-> user_answer, is_correct |-> IsCorrect(user_answer, question)]

(***************************************************************************)
(* take_quiz.                                                              *)
(***************************************************************************)
RawAnswers == {<<>>, <<" ">>, <<" ", "a">>, <<"B">>}
TargetIndexes == (-1)..MaxCount
Actions == {"get", "next", "mark_for_review", "clear_answer", "jump_to"}

\* lines 395-436: the page, or the MultipleObjectsReturned of line 418
Render(user, id, question, msg) ==
    IF Cardinality(Rows(id, question)) > 1
      THEN Response("take_quiz", user, id, "error_500", "MultipleObjectsReturned", -1)
      ELSE Response("take_quiz", user, id, "page", msg, -1)

Finish(r, response) ==
    /\ req' = [req EXCEPT ![r] = IdleReq]
    /\ resp' = response

Goto(r, pc) == req' = [req EXCEPT ![r].pc = pc]

\* a new request is served by the first idle worker
Idle(r) == req[r].pc = "idle" /\ \A x \in Reqs : x < r => req[x].pc # "idle"


QuizFound_AnyUser(user, id) == id \in 1..Len(quiz) /\ ~quiz[id].is_completed

\* line 288
QuizFound(user, id) ==
    id \in 1..Len(quiz) /\ quiz[id].user = user /\ ~quiz[id].is_completed

\* lines 290-295
SessionLost(user, id) ==
    LET question_ids == SessionGet(user, QuestionsKey(id), <<>>)
        current_index == SessionGet(user, CurrentKey(id), 0)
    IN  question_ids = <<>> \/ current_index >= Len(question_ids)

TakeQuizReject_Renders(r, user, id) ==
    /\ Idle(r)
    /\ ~QuizFound(user, id) \/ SessionLost(user, id)
    /\ UNCHANGED <<quiz, answers, qstatus, session, req, now, sealWrites>>
    /\ resp' = IF ~QuizFound(user, id)
                 THEN Response("take_quiz", user, id, "error_404", "-", -1)
                 ELSE Response("take_quiz", user, id, "page", "-", -1)

\* lines 288-295: the requests that end before line 297
TakeQuizReject(r, user, id) ==
    /\ Idle(r)
    /\ ~QuizFound(user, id) \/ SessionLost(user, id)
    /\ UNCHANGED <<quiz, answers, qstatus, session, req, now, sealWrites>>
    /\ resp' = IF ~QuizFound(user, id)
                 THEN Response("take_quiz", user, id, "error_404", "-", -1)
                 ELSE Response("take_quiz", user, id, "redirect", "quiz_results", -1)

JumpInRange_NoLower(target_index, n) == target_index < n

\* line 388
JumpInRange(target_index, n) == 0 <= target_index /\ target_index < n

\* lines 297-302 and, for the actions that touch no row, the rest
TakeQuizLoad(r, user, id, action, raw, target_index) ==
    LET question_ids == SessionGet(user, QuestionsKey(id), <<>>)
        current_index == SessionGet(user, CurrentKey(id), 0)
        question == question_ids[current_index + 1]
        user_answer == Strip(raw)
        loaded == [IdleReq EXCEPT !.view = "take_quiz", !.user = user, !.quiz = id,
                                  !.action = action, !.question = question,
                                  !.current_index = current_index,
                                  !.qlen = Len(question_ids),
                                  !.user_answer = user_answer]
    IN  /\ Idle(r)
        /\ QuizFound(user, id) /\ ~SessionLost(user, id)
        /\ UNCHANGED <<quiz, answers, qstatus, now, sealWrites>>
        /\ CASE action = "mark_for_review" ->
                  /\ req' = [req EXCEPT ![r] = [loaded EXCEPT !.pc = "mark_goc"]]
                  /\ resp' = NoResponse /\ UNCHANGED session
             [] action = "clear_answer" ->
                  /\ req' = [req EXCEPT ![r] = [loaded EXCEPT !.pc = "clear_get"]]
                  /\ resp' = NoResponse /\ UNCHANGED session
             [] action = "next" /\ user_answer # <<>> ->
                  /\ req' = [req EXCEPT ![r] = [loaded EXCEPT !.pc = "next_get"]]
                  /\ resp' = NoResponse /\ UNCHANGED session
             [] action = "next" /\ user_answer = <<>> ->
                  /\ resp' = Render(user, id, question, "provide_answer")
                  /\ UNCHANGED <<req, session>>
             [] action = "jump_to" ->
                  IF JumpInRange(target_index, Len(question_ids))
                    THEN /\ session' = [session EXCEPT ![user] =
                                SessionSet(@, CurrentKey(id), target_index)]
                         /\ resp' = Response("take_quiz", user, id, "redirect",
                                             "take_quiz", -1)
                         /\ UNCHANGED req
                    ELSE /\ resp' = Render(user, id, question, "-")
                         /\ UNCHANGED <<req, session>>
             [] OTHER ->
                  /\ resp' = Render(user, id, question, "-")
                  /\ UNCHANGED <<req, session>>

TakeQuiz(r) ==
    \E user \in Users, id \in RequestIds :
      \/ TakeQuizReject(r, user, id)
      \/ \E action \in Actions :
           \E raw \in (IF action = "next" THEN RawAnswers ELSE {<<>>}),
              target_index \in (IF action = "jump_to" THEN TargetIndexes ELSE {0}) :
             TakeQuizLoad(r, user, id, action, raw, target_index)

Key_Neighbour(r) == <<req[r].quiz, (req[r].question % NumQuestions) + 1>>

\* the (quiz, question) pair of the row lookups of a request
Key(r) == <<req[r].quiz, req[r].question>>

Page(r, msg) == Render(req[r].user, req[r].quiz, req[r].question, msg)

\* lines 306-310: get_or_create under unique_together is atomic
MarkGetOrCreate(r) ==
    /\ req[r].pc = "mark_goc"
    /\ UNCHANGED <<quiz, answers, session, now, sealWrites>>
    /\ IF qstatus[Key(r)] = NoRow
         THEN /\ qstatus' = [qstatus EXCEPT ![Key(r)] = "marked_for_review"]
              /\ Finish(r, Page(r, "marked"))
         ELSE /\ req' = [req EXCEPT ![r].pc = "mark_save", ![r].st = qstatus[Key(r)]]
              /\ resp' = NoResponse /\ UNCHANGED qstatus

MarkStatus_NoAnswered(st) == "marked_for_review"

\* lines 311-317
MarkStatus(st) ==
    IF st = "attempted" THEN "answered_and_marked" ELSE "marked_for_review"

MarkSave(r) ==
    /\ req[r].pc = "mark_save"
    /\ UNCHANGED <<quiz, answers, session, now, sealWrites>>
    /\ qstatus' = [qstatus EXCEPT ![Key(r)] = MarkStatus(req[r].st)]
    /\ Finish(r, Page(r, "marked"))

ClearGet_SameMessage(r) ==
    /\ req[r].pc = "clear_get"
    /\ UNCHANGED <<quiz, answers, qstatus, session, now, sealWrites>>
    /\ LET rows == Rows(req[r].quiz, req[r].question)
       IN  IF rows = {}
             THEN /\ req' = [req EXCEPT ![r].pc = "clear_stget", ![r].msg = "cleared"]
                  /\ resp' = NoResponse
             ELSE IF Cardinality(rows) = 1
               THEN /\ req' = [req EXCEPT ![r].pc = "clear_del",
                                          ![r].row = (CHOOSE a \in rows : TRUE).id]
                    /\ resp' = NoResponse
               ELSE Finish(r, Response("take_quiz", req[r].user, req[r].quiz,
                                       "error_500", "MultipleObjectsReturned", -1))

\* line 322
ClearGet(r) ==
    /\ req[r].pc = "clear_get"
    /\ UNCHANGED <<quiz, answers, qstatus, session, now, sealWrites>>
    /\ LET rows == Rows(req[r].quiz, req[r].question)
       IN  IF rows = {}
             THEN /\ req' = [req EXCEPT ![r].pc = "clear_stget", ![r].msg = "no_answer"]
                  /\ resp' = NoResponse
             ELSE IF Cardinality(rows) = 1
               THEN /\ req' = [req EXCEPT ![r].pc = "clear_del",
                                          ![r].row = (CHOOSE a \in rows : TRUE).id]
                    /\ resp' = NoResponse
               ELSE Finish(r, Response("take_quiz", req[r].user, req[r].quiz,
                                       "error_500", "MultipleObjectsReturned", -1))

\* lines 323-324
ClearDelete(r) ==
    /\ req[r].pc = "clear_del"
    /\ UNCHANGED <<quiz, qstatus, session, now, sealWrites>>
    /\ resp' = NoResponse
    /\ answers' = answers \ {a \in Rows(req[r].quiz, req[r].question) : a.id = req[r].row}
    /\ req' = [req EXCEPT ![r].pc = "clear_stget", ![r].row = 0, ![r].msg = "cleared"]

\* lines 329-331, 337
ClearStatusGet(r) ==
    /\ req[r].pc = "clear_stget"
    /\ UNCHANGED <<quiz, answers, qstatus, session, now, sealWrites>>
    /\ IF qstatus[Key(r)] = NoRow
         THEN Goto(r, "clear_stcreate") /\ resp' = NoResponse
         ELSE IF qstatus[Key(r)] \in {"attempted", "answered_and_marked"}
           THEN /\ req' = [req EXCEPT ![r].pc = "clear_stsave", ![r].st = qstatus[Key(r)]]
                /\ resp' = NoResponse
           ELSE Finish(r, Page(r, req[r].msg))

\* lines 339-343: create raises IntegrityError when the row exists by now
ClearStatusCreate(r) ==
    /\ req[r].pc = "clear_stcreate"
    /\ UNCHANGED <<quiz, answers, session, now, sealWrites>>
    /\ IF qstatus[Key(r)] = NoRow
         THEN /\ qstatus' = [qstatus EXCEPT ![Key(r)] = "unattempted"]
              /\ Finish(r, Page(r, req[r].msg))
         ELSE /\ UNCHANGED qstatus
              /\ Finish(r, Response("take_quiz", req[r].user, req[r].quiz,
                                    "error_500", "IntegrityError", -1))

ClearStatus_Reset(st) == "unattempted"

\* lines 332-336
ClearStatus(st) ==
    IF st = "answered_and_marked" THEN "marked_for_review" ELSE "unattempted"

ClearStatusSave(r) ==
    /\ req[r].pc = "clear_stsave"
    /\ UNCHANGED <<quiz, answers, session, now, sealWrites>>
    /\ qstatus' = [qstatus EXCEPT ![Key(r)] = ClearStatus(req[r].st)]
    /\ Finish(r, Page(r, req[r].msg))


\* line 350, the lookup of get_or_create: QuizAnswer has no unique
\* constraint, so lookup and insert are two steps
NextGet(r) ==
    /\ req[r].pc = "next_get"
    /\ UNCHANGED <<quiz, answers, qstatus, session, now, sealWrites>>
    /\ LET rows == Rows(req[r].quiz, req[r].question)
       IN  IF rows = {}
             THEN Goto(r, "next_create") /\ resp' = NoResponse
             ELSE IF Cardinality(rows) = 1
               THEN /\ req' = [req EXCEPT ![r].pc = "next_save",
                                          ![r].row = (CHOOSE a \in rows : TRUE).id]
                    /\ resp' = NoResponse
               ELSE Finish(r, Response("take_quiz", req[r].user, req[r].quiz,
                                       "error_500", "MultipleObjectsReturned", -1))

\* lines 350-357, the insert of get_or_create
NextCreate(r) ==
    /\ req[r].pc = "next_create"
    /\ UNCHANGED <<quiz, qstatus, session, now, sealWrites>>
    /\ resp' = NoResponse
    /\ answers' = answers \cup
           {AnswerRow(req[r].quiz, req[r].question,
                      FreshRowId(req[r].quiz, req[r].question), req[r].user_answer)}
    /\ Goto(r, "next_stgoc")

\* lines 358-361: save() updates the row, and inserts it again when it was
\* deleted in the meantime
NextSave(r) ==
    /\ req[r].pc = "next_save"
    /\ UNCHANGED <<quiz, qstatus, session, now, sealWrites>>
    /\ resp' = NoResponse
    /\ answers' = (answers \ {a \in Rows(req[r].quiz, req[r].question) : a.id = req[r].row})
           \cup {AnswerRow(req[r].quiz, req[r].question, req[r].row, req[r].user_answer)}
    /\ req' = [req EXCEPT ![r].pc = "next_stgoc", ![r].row = 0]

\* lines 364-368
NextStatusGetOrCreate(r) ==
    /\ req[r].pc = "next_stgoc"
    /\ UNCHANGED <<quiz, answers, session, now, sealWrites>>
    /\ resp' = NoResponse
    /\ IF qstatus[Key(r)] = NoRow
         THEN /\ qstatus' = [qstatus EXCEPT ![Key(r)] = "attempted"]
              /\ Goto(r, "next_adv")
         ELSE /\ req' = [req EXCEPT ![r].pc = "next_stsave", ![r].st = qstatus[Key(r)]]
              /\ UNCHANGED qstatus

SubmitStatus_Forget(st) == "attempted"

\* lines 369-374
SubmitStatus(st) ==
    IF st = "marked_for_review" THEN "answered_and_marked" ELSE "attempted"

NextStatusSave(r) ==
    /\ req[r].pc = "next_stsave"
    /\ UNCHANGED <<quiz, answers, session, now, sealWrites>>
    /\ resp' = NoResponse
    /\ qstatus' = [qstatus EXCEPT ![Key(r)] = SubmitStatus(req[r].st)]
    /\ Goto(r, "next_adv")

NextAdvance_Skip(r) ==
    /\ req[r].pc = "next_adv"
    /\ UNCHANGED <<quiz, answers, qstatus, now, sealWrites>>
    /\ session' = [session EXCEPT ![req[r].user] =
           SessionSet(@, CurrentKey(req[r].quiz), req[r].current_index + 2)]
    /\ Finish(r, Response("take_quiz", req[r].user, req[r].quiz, "redirect",
                          IF req[r].current_index + 1 >= req[r].qlen
                            THEN "quiz_results" ELSE "take_quiz", -1))

NextAdvance_Consume(r) ==
    /\ req[r].pc = "next_adv"
    /\ UNCHANGED <<quiz, answers, qstatus, now, sealWrites>>
    /\ session' = [session EXCEPT ![req[r].user] =
           SessionSet(SessionSet(@, CurrentKey(req[r].quiz), req[r].current_index + 1),
                      QuestionsKey(req[r].quiz),
                      Tail(SessionGet(req[r].user, QuestionsKey(req[r].quiz), <<0>>)))]
    /\ Finish(r, Response("take_quiz", req[r].user, req[r].quiz, "redirect",
                          IF req[r].current_index + 1 >= req[r].qlen
                            THEN "quiz_results" ELSE "take_quiz", -1))


NextAdvance_Seals(r) ==
    /\ req[r].pc = "next_adv"
    /\ UNCHANGED <<answers, qstatus, now, sealWrites>>
    /\ quiz' = IF req[r].current_index + 1 >= req[r].qlen
                 THEN [quiz EXCEPT ![req[r].quiz].is_completed = TRUE,
                                   ![req[r].quiz].score = <<0, 1>>]
                 ELSE quiz
    /\ session' = [session EXCEPT ![req[r].user] =
           SessionSet(@, CurrentKey(req[r].quiz), req[r].current_index + 1)]
    /\ Finish(r, Response("take_quiz", req[r].user, req[r].quiz, "redirect",
                          IF req[r].current_index + 1 >= req[r].qlen
                            THEN "quiz_results" ELSE "take_quiz", -1))

NextAdvance_Stay(r) ==
    /\ req[r].pc = "next_adv"
    /\ UNCHANGED <<quiz, answers, qstatus, session, now, sealWrites>>
    /\ Finish(r, Response("take_quiz", req[r].user, req[r].quiz, "redirect",
                          IF req[r].current_index + 1 >= req[r].qlen
                            THEN "quiz_results" ELSE "take_quiz", -1))

\* lines 376-383
NextAdvance(r) ==
    /\ req[r].pc = "next_adv"
    /\ UNCHANGED <<quiz, answers, qstatus, now, sealWrites>>
    /\ session' = [session EXCEPT ![req[r].user] =
           SessionSet(@, CurrentKey(req[r].quiz), req[r].current_index + 1)]
    /\ Finish(r, Response("take_quiz", req[r].user, req[r].quiz, "redirect",
                          IF req[r].current_index + 1 >= req[r].qlen
                            THEN "quiz_results" ELSE "take_quiz", -1))

(***************************************************************************)
(* Scoring.  Scores are exact: the raw score is kept in quarter points and *)
(* a percentage is the reduced fraction <<numerator, denominator>>.        *)
(***************************************************************************)
RECURSIVE GCD(_, _)
GCD(a, b) == IF b = 0 THEN a ELSE GCD(b, a % b)

Frac(n, d) == IF n = 0 THEN <<0, 1>> ELSE <<n \div GCD(n, d), d \div GCD(n, d)>>

\* raw_score = correct * 1.0 + wrong * -0.25 + unattempted * 0, times 4
RawScore4(correct, wrong, unattempted) ==
    correct * 4 + wrong * (-1) + unattempted * 0

Percentage_NoClamp(raw4, total_questions) ==
    IF total_questions > 0 THEN Frac(raw4 * 25, total_questions) ELSE <<0, 1>>

\* max(0, (raw_score / max_possible) * 100) if max_possible > 0 else 0
Percentage(raw4, total_questions) ==
    IF total_questions > 0
      THEN IF raw4 > 0 THEN Frac(raw4 * 25, total_questions) ELSE <<0, 1>>
      ELSE <<0, 1>>

CorrectCount(id) == Cardinality({a \in answers : a.quiz = id /\ a.is_correct})
WrongCount(id) == Cardinality({a \in answers : a.quiz = id /\ ~a.is_correct})
AttemptedCount(id) == Cardinality({a \in answers : a.quiz = id})

\* Quiz.get_score_breakdown
get_score_breakdown(id) ==
    LET correct_count == CorrectCount(id)
        wrong_count == WrongCount(id)
        attempted_count == AttemptedCount(id)
        unattempted_count == quiz[id].total_questions - attempted_count
        raw4 == RawScore4(correct_count, wrong_count, unattempted_count)
    IN  [correct_count |-> correct_count, wrong_count |-> wrong_count,
         attempted_count |-> attempted_count,
         unattempted_count |-> unattempted_count,
         raw_score4 |-> raw4,
         max_possible |-> quiz[id].total_questions,
         percentage |-> Percentage(raw4, quiz[id].total_questions)]

(***************************************************************************)
(* quiz_results.                                                           *)
(***************************************************************************)
\* line 442 and the test of line 444
QuizResultsLoad(r, user, id) ==
    /\ Idle(r)
    /\ UNCHANGED <<quiz, answers, qstatus, session, now, sealWrites>>
    /\ IF ~(id \in 1..Len(quiz) /\ quiz[id].user = user)
         THEN /\ resp' = Response("quiz_results", user, id, "error_404", "-", -1)
              /\ UNCHANGED req
         ELSE /\ req' = [req EXCEPT ![r] =
                   [IdleReq EXCEPT !.view = "quiz_results", !.user = user, !.quiz = id,
                                   !.pc = IF quiz[id].is_completed
                                            THEN "qr_display" ELSE "qr_correct"]]
              /\ resp' = NoResponse

QuizResults(r) ==
    \E user \in Users, id \in RequestIds : QuizResultsLoad(r, user, id)

\* line 447
QuizResultsCountCorrect(r) ==
    /\ req[r].pc = "qr_correct"
    /\ UNCHANGED <<quiz, answers, qstatus, session, now, sealWrites>>
    /\ resp' = NoResponse
    /\ req' = [req EXCEPT ![r].pc = "qr_wrong", ![r].correct = CorrectCount(req[r].quiz)]

\* lines 448-449
QuizResultsCountWrong(r) ==
    /\ req[r].pc = "qr_wrong"
    /\ UNCHANGED <<quiz, answers, qstatus, session, now, sealWrites>>
    /\ resp' = NoResponse
    /\ req' = [req EXCEPT ![r].pc = "qr_seal", ![r].wrong = WrongCount(req[r].quiz)]


SealScore_NoPenalty(correct_answers, wrong_answers, total_questions) ==
    Percentage(RawScore4(correct_answers, 0, 0), total_questions)

\* lines 450-461; unattempted_questions only ever multiplies 0
SealScore(correct_answers, wrong_answers, total_questions) ==
    LET unattempted_questions == total_questions - (correct_answers + wrong_answers)
    IN  Percentage(RawScore4(correct_answers, wrong_answers, unattempted_questions),
                   total_questions)

QuizResultsSeal_FlagOnly(r) ==
    LET id == req[r].quiz
    IN  /\ req[r].pc = "qr_seal"
        /\ UNCHANGED <<answers, qstatus>>
        /\ resp' = NoResponse
        /\ now' = now + 1
        /\ quiz' = [quiz EXCEPT ![id].is_completed = TRUE]
        /\ sealWrites' = [sealWrites EXCEPT ![id] = @ + 1]
        /\ session' = [session EXCEPT ![req[r].user] =
               SessionPop(@, {QuestionsKey(id), CurrentKey(id)})]
        /\ Goto(r, "qr_display")

\* lines 463-473: quiz.save() and the session clean-up
QuizResultsSeal(r) ==
    LET id == req[r].quiz
    IN  /\ req[r].pc = "qr_seal"
        /\ UNCHANGED <<answers, qstatus>>
        /\ resp' = NoResponse
        /\ now' = now + 1
        /\ quiz' = [quiz EXCEPT ![id].end_time = now + 1,
                                ![id].score = SealScore(req[r].correct, req[r].wrong,
                                                        quiz[id].total_questions),
                                ![id].correct_answers = req[r].correct,
                                ![id].is_completed = TRUE]
        /\ sealWrites' = [sealWrites EXCEPT ![id] = @ + 1]
        /\ session' = [session EXCEPT ![req[r].user] =
               SessionPop(@, {QuestionsKey(id), CurrentKey(id)})]
        /\ Goto(r, "qr_display")

\* lines 475-496
QuizResultsDisplay(r) ==
    LET id == req[r].quiz
        b == get_score_breakdown(id)
    IN  /\ req[r].pc = "qr_display"
        /\ UNCHANGED <<quiz, answers, qstatus, session, now, sealWrites>>
        /\ Finish(r, [Response("quiz_results", req[r].user, id, "page", "-", -1)
                        EXCEPT !.body = [score |-> quiz[id].score,
                                         correct_count |-> b.correct_count,
                                         wrong_count |-> b.wrong_count,
                                         attempted_count |-> b.attempted_count,
                                         unattempted_count |-> b.unattempted_count,
                                         raw_score4 |-> b.raw_score4,
                                         max_possible |-> b.max_possible]])

Step(r) ==
    \/ MarkGetOrCreate(r)
    \/ MarkSave(r)
    \/ ClearGet(r)
    \/ ClearDelete(r)
    \/ ClearStatusGet(r)
    \/ ClearStatusCreate(r)
    \/ ClearStatusSave(r)
    \/ NextGet(r)
    \/ NextCreate(r)
    \/ NextSave(r)
    \/ NextStatusGetOrCreate(r)
    \/ NextStatusSave(r)
    \/ NextAdvance(r)
    \/ QuizResultsCountCorrect(r)
    \/ QuizResultsCountWrong(r)
    \/ QuizResultsSeal(r)
    \/ QuizResultsDisplay(r)

Start == (StartQuiz \/ StartBookQuiz) /\ UNCHANGED <<served, applied, batch>>

Begin == \E r \in Reqs : TakeQuiz(r) \/ QuizResults(r)

StepAny == \E r \in Reqs : Step(r)

Steps == StepAny /\ UNCHANGED <<served, applied, batch>>

Next ==
    \/ Start
    \/ Begin /\ served < MaxRequests /\ served' = served + 1 /\ UNCHANGED <<applied, batch>>
    \/ Steps

Spec == Init /\ [][Next]_vars

\* no request is in flight
Serial == \A r \in Reqs : req[r].pc = "idle"

NextSeq ==
    \/ Start
    \/ Begin /\ Serial /\ UNCHANGED <<served, applied, batch>>
    \/ Steps

SpecSeq == Init /\ [][NextSeq]_vars

(***************************************************************************)
(* SpecResend: requests served one at a time, as in SpecSeq, with a record *)
(* of the submit request the client sent last.  applied.n counts how many  *)
(* times in a row the same submit (same user, quiz and answer) has been    *)
(* sent; applied.answers and applied.qstatus are the rows as its first     *)
(* application left them.  Any other request ends the record.              *)
(***************************************************************************)
\* the request that the step begins has passed line 345: it is a submit
SubmitBegun(r) == req[r].pc = "idle" /\ req'[r].pc = "next_get"

SameSubmit(r) ==
    /\ applied.n = 1
    /\ applied.user = req'[r].user
    /\ applied.quiz = req'[r].quiz
    /\ applied.answer = req'[r].user_answer

BeginResend ==
    /\ Begin /\ Serial
    /\ UNCHANGED <<served, batch>>
    /\ applied' =
         IF \E r \in Reqs : SubmitBegun(r)
           THEN LET r == CHOOSE x \in Reqs : SubmitBegun(x)
                IN  IF SameSubmit(r)
                      THEN [applied EXCEPT !.n = 2]
                      ELSE [n |-> 1, user |-> req'[r].user, quiz |-> req'[r].quiz,
                            answer |-> req'[r].user_answer,
                            answers |-> {}, qstatus |-> <<>>]
           ELSE NoApplied

StepsResend ==
    /\ StepAny
    /\ UNCHANGED <<served, batch>>
    /\ applied' = IF applied.n = 1 /\ Serial'
                    THEN [applied EXCEPT !.answers = answers', !.qstatus = qstatus']
                    ELSE applied

NextResend == Start \/ BeginResend \/ StepsResend

SpecResend == Init /\ [][NextResend]_vars

(***************************************************************************)
(* SpecRace: requests interleave, as in Spec, with a record of the         *)
(* requests that modify a question (submit, mark_for_review, clear_answer) *)
(* and overlap: batch.ops lists them in the order they began, batch.base   *)
(* is the status and the answer of every (quiz, question) pair when the    *)
(* first of them began.  A batch ends when no such request is in flight.   *)
(***************************************************************************)
ModifyingActions == {"next", "mark_for_review", "clear_answer"}

\* status and answer of a (quiz, question) pair
PairState(id, q) ==
    [status |-> qstatus[<<id, q>>], answer |-> {a.user_answer : a \in Rows(id, q)}]

\* lines 345-374 run alone on a pair
PairSubmit(s, user_answer) ==
    [status |-> IF s.status = NoRow THEN "attempted" ELSE SubmitStatus(s.status),
     answer |-> {user_answer}]

\* lines 304-317 run alone on a pair
PairMark(s) ==
    [status |-> IF s.status = NoRow THEN "marked_for_review" ELSE MarkStatus(s.status),
     answer |-> s.answer]

\* lines 319-343 run alone on a pair
PairClear(s) ==
    [status |-> IF s.status = NoRow
                  THEN "unattempted"
                  ELSE IF s.status \in {"attempted", "answered_and_marked"}
                    THEN ClearStatus(s.status)
                    ELSE s.status,
     answer |-> {}]

PairApply(op, s) ==
    CASE op.action = "next" -> PairSubmit(s, op.user_answer)
      [] op.action = "mark_for_review" -> PairMark(s)
      [] OTHER -> PairClear(s)

\* the results of applying the requests ops[i], i \in I, to s one after the
\* other, in every order
RECURSIVE SerialResults(_, _, _)
SerialResults(ops, I, s) ==
    IF I = {}
      THEN {s}
      ELSE UNION {SerialResults(ops, I \ {i}, PairApply(ops[i], s)) : i \in I}

NoneModifying == \A r \in Reqs : req[r].action \notin ModifyingActions

\* the request that the step begins goes on to modify a question
ModifyBegun(r) ==
    req[r].pc = "idle" /\ req'[r].pc \in {"mark_goc", "clear_get", "next_get"}

BeginRace ==
    /\ Begin /\ served < MaxRequests /\ served' = served + 1
    /\ UNCHANGED applied
    /\ batch' =
         IF \E r \in Reqs : ModifyBegun(r)
           THEN LET r == CHOOSE x \in Reqs : ModifyBegun(x)
                    op == [action |-> req'[r].action, quiz |-> req'[r].quiz,
                           question |-> req'[r].question,
                           user_answer |-> req'[r].user_answer]
                IN  IF NoneModifying
                      THEN [base |-> [p \in DOMAIN qstatus |-> PairState(p[1], p[2])],
                            ops |-> <<op>>]
                      ELSE [batch EXCEPT !.ops = Append(@, op)]
           ELSE batch

NextRace == Start \/ BeginRace \/ Steps

SpecRace == Init /\ [][NextRace]_vars

(***************************************************************************)
(* Vocabulary of the properties.                                           *)
(***************************************************************************)
Sealed(id) == id \in 1..Len(quiz) /\ quiz[id].is_completed

\* the question at the cursor of the owner's session, 0 when there is none
CursorQuestion(id) ==
    LET u == quiz[id].user
        question_ids == SessionGet(u, QuestionsKey(id), <<>>)
        current_index == SessionGet(u, CurrentKey(id), 0)
    IN  IF current_index < Len(question_ids) THEN question_ids[current_index + 1] ELSE 0

OtherStatusesUnchanged(r) ==
    \A k \in DOMAIN qstatus : k # Key(r) => qstatus'[k] = qstatus[k]

\* the step of request r that settles the status of a submit
SubmitStatusStep(r) ==
    req[r].pc \in {"next_stgoc", "next_stsave"} /\ req'[r].pc = "next_adv"

\* the step of request r that settles the status of a mark_for_review
MarkStatusStep(r) ==
    req[r].pc \in {"mark_goc", "mark_save"} /\ req'[r].pc = "idle"

\* the last step of a clear_answer of request r that found an answer
ClearedStep(r) ==
    /\ req[r].action = "clear_answer" /\ req[r].msg = "cleared"
    /\ req[r].pc # "idle" /\ req'[r].pc = "idle"

(***************************************************************************)
(* C1: a submit on the question at the cursor of an unsealed quiz takes    *)
(* its status from unattempted (no row, or an 'unattempted' row) or        *)
(* attempted to attempted, and from marked_for_review to                   *)
(* answered_and_marked; no other question changes status.                  *)
(***************************************************************************)
C1_SubmitTransition ==
    [][\A r \in Reqs : SubmitStatusStep(r) =>
         /\ ~Sealed(req[r].quiz)
         /\ req[r].question = CursorQuestion(req[r].quiz)
         /\ qstatus[Key(r)] \in {NoRow, "unattempted", "attempted"}
              => qstatus'[Key(r)] = "attempted"
         /\ qstatus[Key(r)] = "marked_for_review"
              => qstatus'[Key(r)] = "answered_and_marked"
         /\ OtherStatusesUnchanged(r)]_vars

C1_Witness ==
    \E r \in Reqs :
      /\ req[r].pc = "next_adv"
      /\ ~Sealed(req[r].quiz)
      /\ qstatus[Key(r)] = "answered_and_marked"

(***************************************************************************)
(* C2: mark_for_review on an unsealed quiz takes the status of the         *)
(* question from unattempted (no row, or an 'unattempted' row) to          *)
(* marked_for_review and from attempted to answered_and_marked; no other   *)
(* question changes status.                                                *)
(***************************************************************************)
C2_MarkTransition ==
    [][\A r \in Reqs : MarkStatusStep(r) =>
         /\ ~Sealed(req[r].quiz)
         /\ qstatus[Key(r)] \in {NoRow, "unattempted"}
              => qstatus'[Key(r)] = "marked_for_review"
         /\ qstatus[Key(r)] = "attempted"
              => qstatus'[Key(r)] = "answered_and_marked"
         /\ OtherStatusesUnchanged(r)]_vars

C2_Witness ==
    /\ resp.view = "take_quiz" /\ resp.msg = "marked"
    /\ ~Sealed(1)
    /\ CursorQuestion(1) # 0
    /\ qstatus[<<1, CursorQuestion(1)>>] = "answered_and_marked"
    /\ Rows(1, CursorQuestion(1)) # {}

(***************************************************************************)
(* C3: clear_answer on a question of an unsealed quiz that has an answer   *)
(* leaves no answer for the question and takes its status from             *)
(* answered_and_marked to marked_for_review and from attempted to          *)
(* unattempted.                                                            *)
(***************************************************************************)
C3_ClearTransition ==
    [][\A r \in Reqs : ClearedStep(r) =>
         /\ ~Sealed(req[r].quiz)
         /\ {a \in answers' : a.quiz = req[r].quiz /\ a.question = req[r].question} = {}
         /\ qstatus[Key(r)] = "answered_and_marked"
              => qstatus'[Key(r)] = "marked_for_review"
         /\ qstatus[Key(r)] = "attempted"
              => qstatus'[Key(r)] = "unattempted"
         /\ OtherStatusesUnchanged(r)]_vars

C3_Witness ==
    /\ resp.view = "take_quiz" /\ resp.msg = "cleared"
    /\ ~Sealed(1)
    /\ CursorQuestion(1) # 0
    /\ qstatus[<<1, CursorQuestion(1)>>] = "unattempted"
    /\ Rows(1, CursorQuestion(1)) = {}

(***************************************************************************)
(* C4: an action outside the transition table -- mark_for_review on a      *)
(* question that is marked_for_review or answered_and_marked, a submit on  *)
(* a question that is answered_and_marked -- is not accepted and leaves    *)
(* the status of the question as it was.                                   *)
(***************************************************************************)
C4_IllegalActionRejected ==
    [][\A r \in Reqs :
         /\ (MarkStatusStep(r)
               /\ qstatus[Key(r)] \in {"marked_for_review", "answered_and_marked"})
              => qstatus'[Key(r)] = qstatus[Key(r)] /\ resp'.msg # "marked"
         /\ (SubmitStatusStep(r) /\ qstatus[Key(r)] = "answered_and_marked")
              => qstatus'[Key(r)] = qstatus[Key(r)]]_vars

(***************************************************************************)
(* C5: sealing is exactly-once -- when results requests for one unsealed   *)
(* quiz interleave, only one of them computes the score and writes score,  *)
(* correct_answers, end_time and is_completed.                             *)
(***************************************************************************)
C5_SealedExactlyOnce == \A id \in QuizIds : sealWrites[id] <= 1

(***************************************************************************)
(* C6: once a quiz is sealed, no step of any request changes its           *)
(* QuizAnswer rows or its QuizQuestionStatus rows.                         *)
(***************************************************************************)
C6_SealedReadOnly ==
    [][\A id \in QuizIds : Sealed(id) =>
         /\ {a \in answers' : a.quiz = id} = {a \in answers : a.quiz = id}
         /\ \A q \in QuestionIds : qstatus'[<<id, q>>] = qstatus[<<id, q>>]]_vars

(***************************************************************************)
(* C7: scoring is idempotent after sealing -- on a sealed quiz,            *)
(* get_score_breakdown and every results page give the correct count and   *)
(* the percentage that the sealing stored, and no step changes the stored  *)
(* score, correct_answers, end_time and is_completed.                      *)
(***************************************************************************)
C7_BreakdownIsStored(id) ==
    /\ get_score_breakdown(id).correct_count = quiz[id].correct_answers
    /\ get_score_breakdown(id).percentage = quiz[id].score
    /\ (resp.view = "quiz_results" /\ resp.kind = "page" /\ resp.quiz = id) =>
         /\ resp.body.correct_count = quiz[id].correct_answers
         /\ Percentage(resp.body.raw_score4, resp.body.max_possible) = resp.body.score
         /\ resp.body.score = quiz[id].score

C7_ScoringIdempotent ==
    [][\A id \in QuizIds :
         /\ Sealed(id)' => C7_BreakdownIsStored(id)'
         /\ Sealed(id) => quiz'[id] = quiz[id]]_vars

(***************************************************************************)
(* C8: the sealing step stores as score the percentage                     *)
(* max(0, (correct * 1 - wrong * 0.25) / total_questions * 100) of the     *)
(* answers of the quiz (0 when total_questions is 0), which is never       *)
(* negative: total 10, correct 6, wrong 2 gives 55, and total 4,           *)
(* correct 0, wrong 4 gives 0.                                             *)
(***************************************************************************)
\* <<n, d>> is the fraction max(0, (4c - w) / (4t) * 100)
C8_IsPercentage(score, c, w, t) ==
    /\ Len(score) = 2 /\ score[2] > 0 /\ score[1] >= 0
    /\ IF t > 0 /\ 4 * c - w > 0
         THEN score[1] * 4 * t = (4 * c - w) * 100 * score[2]
         ELSE score[1] = 0

SealStep(r) == req[r].pc = "qr_seal" /\ req'[r].pc = "qr_display"

InScope(q, source) ==
    \/ source[1] = "chapter" /\ QuestionChapter(q) = source[2]
    \/ source[1] = "book" /\ ChapterBook(QuestionChapter(q)) = source[2]

EligibleSet(source, difficulty) ==
    {q \in QuestionIds :
       InScope(q, source) /\ (difficulty = "all" \/ QuestionDifficulty(q) = difficulty)}

\* the form passes field validation and selects the source of the URL
Coherent(source, form) ==
    /\ form.num_questions \in MinNumQuestions..MaxNumQuestions
    /\ form.quiz_type = source[1]
    /\ source[1] = "chapter" => form.chapter = source[2]
    /\ source[1] = "book" => form.book = source[2]

StartStep(user, source, form) ==
    \/ source[1] = "chapter" /\ start_quiz(user, source[2], form)
    \/ source[1] = "book" /\ start_book_quiz(user, source[2], form)

Sources == ({"chapter"} \X Chapters) \cup ({"book"} \X Books)

C9_SequenceOK(user, source, form) ==
    /\ Len(quiz') = Len(quiz) + 1
    /\ QuestionsKey(Len(quiz')) \in DOMAIN session'[user]
    /\ LET seq == session'[user][QuestionsKey(Len(quiz'))]
       IN  /\ Len(seq) = form.num_questions
           /\ \A i, j \in 1..Len(seq) : i # j => seq[i] # seq[j]
           /\ \A i \in 1..Len(seq) : seq[i] \in EligibleSet(source, form.difficulty)
    /\ session'[user][CurrentKey(Len(quiz'))] = 0

C9_SampleOnStart ==
    [][resp'.view \in {"start_quiz", "start_book_quiz"} =>
         \A user \in Owners, source \in Sources : \A form \in StartForms(source) :
           /\ (StartStep(user, source, form) /\ quiz' # quiz)
                => C9_SequenceOK(user, source, form)
           /\ (/\ StartStep(user, source, form)
               /\ Coherent(source, form)
               /\ Cardinality(EligibleSet(source, form.difficulty)) >= form.num_questions)
                => C9_SequenceOK(user, source, form)]_vars

C9_Witness ==
    /\ resp.view \in {"start_quiz", "start_book_quiz"} /\ resp.kind = "redirect"
    /\ Len(quiz) = 1 /\ quiz[1].total_questions = 2
    /\ Len(session[quiz[1].user][QuestionsKey(1)]) = 2
    /\ session[quiz[1].user][CurrentKey(1)] = 0

(***************************************************************************)
(* C10: a start request that finds fewer eligible questions than the       *)
(* requested count (none included) fails, reports the number of eligible   *)
(* questions, and creates neither a Quiz row nor a session sequence.  The  *)
(* requests are those that pass field validation and select the source of  *)
(* the URL.                                                                *)
(***************************************************************************)
C10_InsufficientQuestions ==
    [][resp'.view \in {"start_quiz", "start_book_quiz"} =>
         \A user \in Owners, source \in Sources : \A form \in StartForms(source) :
           (/\ StartStep(user, source, form)
            /\ Coherent(source, form)
            /\ Cardinality(EligibleSet(source, form.difficulty)) < form.num_questions)
             => /\ resp'.kind \in {"error", "form_error"}
                /\ resp'.msg = "only_available"
                /\ resp'.n = Cardinality(EligibleSet(source, form.difficulty))
                /\ quiz' = quiz
                /\ session' = session]_vars

C10_Witness ==
    /\ resp.view \in {"start_quiz", "start_book_quiz"}
    /\ resp.kind = "error" /\ resp.msg = "only_available" /\ resp.n = 0
    /\ quiz = <<>>
    /\ \A u \in Users : DOMAIN session[u] = {}

(***************************************************************************)
(* Vocabulary of the navigation properties.                                *)
(***************************************************************************)
\* what take_quiz reads from the session of the owner of quiz id (lines 291-292)
Sequence(id) == SessionGet(quiz[id].user, QuestionsKey(id), <<>>)
Cursor(id) == SessionGet(quiz[id].user, CurrentKey(id), 0)

HasSession(id) ==
    /\ QuestionsKey(id) \in DOMAIN session[quiz[id].user]
    /\ CurrentKey(id) \in DOMAIN session[quiz[id].user]

SequenceIds(id) == {Sequence(id)[i] : i \in 1..Len(Sequence(id))}

\* the raw answer is empty or only whitespace
IsBlank(raw) == \A i \in DOMAIN raw : raw[i] = " "

(***************************************************************************)
(* C11: in every reachable state there is at most one QuizAnswer row per   *)
(* (quiz, question) pair, also when submit requests for the same question  *)
(* interleave.                                                             *)
(***************************************************************************)
C11_OneAnswerPerPair ==
    \A id \in QuizIds, q \in QuestionIds : Cardinality(Rows(id, q)) <= 1

(***************************************************************************)
(* C12: for every (quiz, question) pair, requests that overlap are         *)
(* serialized -- when the last of them has ended, the status and the       *)
(* answer of the pair are the result of applying the submit,               *)
(* mark_for_review and clear_answer requests of the batch on that pair,    *)
(* one after the other in some order, to the state the batch started from. *)
(***************************************************************************)
C12_Serialized ==
    (NoneModifying /\ batch # NoBatch) =>
      \A p \in DOMAIN qstatus :
        PairState(p[1], p[2]) \in
          SerialResults(batch.ops,
                        {i \in 1..Len(batch.ops) :
                           batch.ops[i].quiz = p[1] /\ batch.ops[i].question = p[2]},
                        batch.base[p])

(***************************************************************************)
(* C13: a quiz never has more QuizAnswer rows than total_questions, so the *)
(* unattempted count of get_score_breakdown and the one the results step   *)
(* computes from its counts are never negative.                            *)
(***************************************************************************)
C13_AnswersWithinTotal ==
    /\ \A id \in 1..Len(quiz) :
         /\ AttemptedCount(id) <= quiz[id].total_questions
         /\ get_score_breakdown(id).unattempted_count >= 0
    /\ \A r \in Reqs : req[r].pc = "qr_seal" =>
         quiz[req[r].quiz].total_questions - (req[r].correct + req[r].wrong) >= 0

(***************************************************************************)
(* C14 (as claimed): the stored cursor of a quiz is always in              *)
(* [0, len(question_sequence)).                                            *)
(***************************************************************************)
C14_CursorInRange ==
    \A id \in 1..Len(quiz) : HasSession(id) =>
      0 <= Cursor(id) /\ Cursor(id) < Len(Sequence(id))

(***************************************************************************)
(* C14 (amended): the stored cursor of a quiz is always in                 *)
(* [0, len(question_sequence)], and the only step that stores              *)
(* len(question_sequence) is the advance of a submit at the last position. *)
(***************************************************************************)
C14_CursorWithinSequence ==
    [][\A id \in 1..Len(quiz') : HasSession(id)' =>
         /\ 0 <= Cursor(id)' /\ Cursor(id)' <= Len(Sequence(id)')
         /\ (/\ Cursor(id)' = Len(Sequence(id)')
             /\ id \in 1..Len(quiz) => Cursor(id) # Cursor(id)') =>
              \E r \in Reqs : /\ req[r].pc = "next_adv" /\ req'[r].pc = "idle"
                              /\ req[r].quiz = id
                              /\ req[r].current_index + 1 = Len(Sequence(id)')]_vars

C14_Witness ==
    /\ Len(quiz) = 1 /\ ~Sealed(1) /\ HasSession(1)
    /\ Len(Sequence(1)) = 2 /\ Cursor(1) = 2
    /\ resp.kind = "redirect" /\ resp.msg = "quiz_results"

(***************************************************************************)
(* C15 (as claimed): after any step, reading the question sequence of a    *)
(* quiz yields the same ordered list as before the step.                   *)
(***************************************************************************)
C15_SequenceNeverChanges ==
    [][\A id \in 1..Len(quiz) : Sequence(id)' = Sequence(id)]_vars

(***************************************************************************)
(* C15 (amended): no step stores a different question sequence for a quiz: *)
(* after any step the sequence read is the one read before it, or it is    *)
(* gone because the step sealed the quiz (the results step removes the     *)
(* sequence from the session).                                             *)
(***************************************************************************)
C15_SequenceFixedUntilSealed ==
    [][\A id \in 1..Len(quiz) :
         \/ Sequence(id)' = Sequence(id)
         \/ /\ Sequence(id)' = <<>>
            /\ \E r \in Reqs : req[r].pc = "qr_seal" /\ req[r].quiz = id /\ Sealed(id)']_vars

C15_Witness ==
    /\ Sealed(1) /\ Sequence(1) = <<>> /\ ~HasSession(1)
    /\ quiz[1].total_questions = 2
    /\ AttemptedCount(1) = 2

(***************************************************************************)
(* C16: a submit names the question it was issued for; when that question  *)
(* is not the one at the cursor, the submit is rejected: the request ends  *)
(* there and records no answer.  (take_quiz reads 'action', 'answer' and   *)
(* 'question_index' from the POST data and no question id, so question_id  *)
(* ranges over what the client may send.)                                  *)
(***************************************************************************)
C16_SubmitBoundToQuestion ==
    [][\A r \in Reqs, user \in Users, id \in QuizIds, raw \in RawAnswers :
         \A question_id \in QuestionIds :
           (/\ TakeQuizLoad(r, user, id, "next", raw, 0)
            /\ ~IsBlank(raw)
            /\ question_id # CursorQuestion(id))
             => /\ req'[r].pc = "idle"
                /\ resp'.kind \notin {"redirect", "-"}]_vars

(***************************************************************************)
(* C17: re-sending the same submit request is safe -- once the request has *)
(* been applied a second time, the QuizAnswer rows and the question        *)
(* statuses are the ones its first application left.                       *)
(***************************************************************************)
C17_ResubmitSafe ==
    (applied.n = 2 /\ Serial) =>
      /\ answers = applied.answers
      /\ qstatus = applied.qstatus

(***************************************************************************)
(* C18: a submit whose answer is empty or only whitespace is answered with *)
(* the validation message and changes no state: no Quiz row, no QuizAnswer *)
(* row, no QuizQuestionStatus row, not the cursor, and nothing stays in    *)
(* flight.                                                                 *)
(***************************************************************************)
C18_EmptySubmitRejected ==
    [][\A r \in Reqs, user \in Users, id \in QuizIds, raw \in RawAnswers :
         (TakeQuizLoad(r, user, id, "next", raw, 0) /\ IsBlank(raw))
           => /\ resp'.kind = "page" /\ resp'.msg = "provide_answer"
              /\ UNCHANGED <<quiz, answers, qstatus, session, req>>]_vars

C18_Witness ==
    /\ resp.view = "take_quiz" /\ resp.kind = "page" /\ resp.msg = "provide_answer"
    /\ Serial
    /\ Len(quiz) = 1 /\ Cursor(1) = 1 /\ Rows(1, CursorQuestion(1)) = {}
    /\ qstatus[<<1, CursorQuestion(1)>>] = NoRow

(***************************************************************************)
(* C19: jump_to(index) stores index as the cursor when                     *)
(* 0 <= index < len(question_sequence), and otherwise changes nothing and  *)
(* answers with the page, not an error; in both cases every QuizAnswer and *)
(* QuizQuestionStatus row stays as it was.                                 *)
(***************************************************************************)
C19_JumpTo ==
    [][\A r \in Reqs, user \in Users, id \in QuizIds, index \in TargetIndexes :
         TakeQuizLoad(r, user, id, "jump_to", <<>>, index) =>
           LET n == Len(SessionGet(user, QuestionsKey(id), <<>>))
           IN  /\ (0 <= index /\ index < n) =>
                    /\ session'[user][CurrentKey(id)] = index
                    /\ \A u \in Users : \A k \in DOMAIN session[u] :
                         (u # user \/ k # CurrentKey(id)) =>
                           k \in DOMAIN session'[u] /\ session'[u][k] = session[u][k]
               /\ ~(0 <= index /\ index < n) =>
                    /\ session' = session
                    /\ resp'.kind = "page"
               /\ answers' = answers /\ qstatus' = qstatus /\ quiz' = quiz]_vars

C19_Witness ==
    /\ resp.view = "take_quiz" /\ resp.kind = "redirect" /\ resp.msg = "take_quiz"
    /\ Len(quiz) = 1 /\ HasSession(1) /\ Cursor(1) = 0
    /\ Rows(1, Sequence(1)[1]) # {}

(***************************************************************************)
(* C20 (as claimed): mark_for_review and clear_answer act on whichever     *)
(* question of the sequence the request names: whatever question_id the    *)
(* client sends, the action settles the status (and removes the answer) of *)
(* that question and changes no other question.                            *)
(***************************************************************************)
C20_AnyQuestionPassed ==
    [][\A r \in Reqs : req[r].pc # "idle" =>
         \A question_id \in SequenceIds(req[r].quiz) :
           /\ MarkStatusStep(r) =>
                /\ qstatus'[<<req[r].quiz, question_id>>]
                     \in {"marked_for_review", "answered_and_marked"}
                /\ \A q \in QuestionIds \ {question_id} :
                     qstatus'[<<req[r].quiz, q>>] = qstatus[<<req[r].quiz, q>>]
           /\ ClearedStep(r) =>
                {a \in answers' : a.quiz = req[r].quiz /\ a.question = question_id} = {}]_vars

(***************************************************************************)
(* C20 (amended): mark_for_review and clear_answer act on the question at  *)
(* the cursor: every step of such a request leaves the cursor and the      *)
(* sequence as they are and changes the status and the answer of no other  *)
(* question; the mark settles the status of the question at the cursor as  *)
(* marked, the clear leaves it without an answer.                          *)
(***************************************************************************)
C20_ActsOnCursorQuestion ==
    [][\A r \in Reqs :
         (req[r].pc # "idle" /\ req[r].action \in {"mark_for_review", "clear_answer"}) =>
           LET id == req[r].quiz
               q == CursorQuestion(id)
           IN  /\ session' = session
               /\ \A p \in QuestionIds \ {q} :
                    /\ qstatus'[<<id, p>>] = qstatus[<<id, p>>]
                    /\ {a \in answers' : a.quiz = id /\ a.question = p} = Rows(id, p)
               /\ MarkStatusStep(r) =>
                    qstatus'[<<id, q>>] \in {"marked_for_review", "answered_and_marked"}
               /\ (req[r].action = "clear_answer" /\ req'[r].pc = "idle") =>
                    {a \in answers' : a.quiz = id /\ a.question = q} = {}]_vars

C20_Witness ==
    /\ resp.view = "take_quiz" /\ resp.msg = "marked"
    /\ Len(quiz) = 1 /\ HasSession(1) /\ Len(Sequence(1)) = 2 /\ Cursor(1) = 1
    /\ qstatus[<<1, Sequence(1)[2]>>] = "marked_for_review"
    /\ qstatus[<<1, Sequence(1)[1]>>] = NoRow

(***************************************************************************)
(* C21: clear_answer on a question that has no answer succeeds as a no-op  *)
(* -- no answer appears, the question keeps its logical status (no status  *)
(* record counts as unattempted) -- and the caller is told 'no answer to   *)
(* clear', where clearing an existing answer tells 'cleared'.              *)
(***************************************************************************)
LogicalStatus(st) == IF st = NoRow THEN "unattempted" ELSE st

C21_ClearWithoutAnswer ==
    [][\A r \in Reqs : (req[r].pc # "idle" /\ req[r].action = "clear_answer") =>
         LET rows == Rows(req[r].quiz, req[r].question)
             found == req[r].pc = "clear_get" /\ rows # {}
             none == \/ req[r].pc = "clear_get" /\ rows = {}
                     \/ req[r].pc # "clear_get" /\ req[r].msg = "no_answer"
         IN  /\ (req[r].pc = "clear_get" /\ rows = {}) => req'[r].msg = "no_answer"
             /\ found => req'[r].pc = "clear_del"
             /\ req[r].pc = "clear_del" => req'[r].msg = "cleared"
             /\ none =>
                  /\ answers' = answers
                  /\ LogicalStatus(qstatus'[Key(r)]) = LogicalStatus(qstatus[Key(r)])
                  /\ OtherStatusesUnchanged(r)
             /\ req'[r].pc = "idle" =>
                  /\ resp'.kind = "page"
                  /\ resp'.msg = req[r].msg
                  /\ resp'.msg \in {"no_answer", "cleared"}]_vars

C21_Witness ==
    /\ resp.view = "take_quiz" /\ resp.kind = "page" /\ resp.msg = "no_answer"
    /\ Len(quiz) = 1 /\ ~Sealed(1) /\ CursorQuestion(1) # 0
    /\ qstatus[<<1, CursorQuestion(1)>>] = "marked_for_review"
    /\ Rows(1, CursorQuestion(1)) = {}

(***************************************************************************)
(* C22: a results request by the owner on an unsealed quiz is accepted     *)
(* whatever the session holds (any cursor, any number of answers) and      *)
(* seals the quiz: its sealing step sets is_completed and stores the score *)
(* of the answers present at that moment, and when the request ends the    *)
(* quiz is sealed and the page shows the stored score.                     *)
(***************************************************************************)
C22_ResultsSeals ==
    [][\A r \in Reqs, id \in QuizIds :
         /\ \A user \in Users :
              (/\ QuizResultsLoad(r, user, id)
               /\ id \in 1..Len(quiz) /\ quiz[id].user = user /\ ~Sealed(id))
                => req'[r].pc = "qr_correct" /\ req'[r].quiz = id
         /\ (SealStep(r) /\ req[r].quiz = id) =>
              /\ ~Sealed(id) /\ Sealed(id)'
              /\ C8_IsPercentage(quiz'[id].score, CorrectCount(id), WrongCount(id),
                                 quiz[id].total_questions)
         /\ (/\ req[r].view = "quiz_results" /\ req[r].quiz = id
             /\ req[r].pc # "idle" /\ req'[r].pc = "idle") =>
              /\ Sealed(id)'
              /\ C8_IsPercentage(quiz'[id].score, CorrectCount(id)', WrongCount(id)',
                                 quiz'[id].total_questions)
              /\ resp'.kind = "page" /\ resp'.body.score = quiz'[id].score]_vars

C22_Witness ==
    /\ resp.view = "quiz_results" /\ resp.kind = "page" /\ resp.quiz = 1
    /\ Sealed(1) /\ quiz[1].total_questions = 2
    /\ AttemptedCount(1) = 1 /\ WrongCount(1) = 1
    /\ quiz[1].score = <<0, 1>>

(***************************************************************************)
(* C23: a submit that advances the cursor to the end of the sequence only  *)
(* signals completion: it answers with the redirect to the results and no  *)
(* step of a submit writes the Quiz row (is_completed, score); a quiz      *)
(* becomes sealed only by the sealing step of a results request.           *)
(***************************************************************************)
C23_LastSubmitOnlySignals ==
    [][/\ \A r \in Reqs : (req[r].pc # "idle" /\ req[r].action = "next") =>
            /\ quiz' = quiz
            /\ (req'[r].pc = "idle" /\ req[r].current_index + 1 >= req[r].qlen) =>
                 resp'.kind = "redirect" /\ resp'.msg = "quiz_results"
       /\ \A id \in 1..Len(quiz) : (~Sealed(id) /\ Sealed(id)') =>
            \E r \in Reqs : /\ req[r].view = "quiz_results" /\ req[r].quiz = id
                            /\ SealStep(r)]_vars

C23_Witness ==
    /\ resp.view = "take_quiz" /\ resp.kind = "redirect" /\ resp.msg = "quiz_results"
    /\ Len(quiz) = 1 /\ quiz[1].total_questions = 1
    /\ HasSession(1) /\ Cursor(1) = Len(Sequence(1))
    /\ AttemptedCount(1) = 1
    /\ ~quiz[1].is_completed /\ quiz[1].score = NullScore /\ quiz[1].end_time = NullTime

(***************************************************************************)
(* C24: a take-quiz or results request for a quiz that another user owns   *)
(* is answered exactly like a request for a quiz that does not exist (the  *)
(* same 404 response) and changes no state: the quiz is not sealed, and no *)
(* answer, status, score or session entry changes.                         *)
(***************************************************************************)
\* the request that a step serves: user asks view for quiz id
Serves(r, view, user, id) ==
    \/ /\ view = "take_quiz"
       /\ \/ TakeQuizReject(r, user, id)
          \/ /\ QuizFound(user, id) /\ ~SessionLost(user, id)
             /\ \E action \in Actions, raw \in RawAnswers, target_index \in TargetIndexes :
                  TakeQuizLoad(r, user, id, action, raw, target_index)
    \/ view = "quiz_results" /\ QuizResultsLoad(r, user, id)

IsNotFound(response, view, user, id) ==
    /\ response.view = view /\ response.user = user /\ response.quiz = id
    /\ response.kind = "error_404" /\ response.msg = "-"
    /\ response.n = -1 /\ response.body = <<>>

C24_ForeignQuizNotFound ==
    [][\A r \in Reqs, view \in {"take_quiz", "quiz_results"}, user \in Users,
          id \in RequestIds :
         (/\ \/ id \notin 1..Len(quiz)
             \/ id \in 1..Len(quiz) /\ quiz[id].user # user
          /\ req[r].pc = "idle"
          /\ Serves(r, view, user, id))
           => /\ IsNotFound(resp', view, user, id)
              /\ UNCHANGED <<quiz, answers, qstatus, session, req, sealWrites>>]_vars

C24_Witness ==
    /\ resp.view = "quiz_results" /\ resp.user = "u2" /\ resp.quiz = 1
    /\ resp.kind = "error_404"
    /\ Len(quiz) = 1 /\ quiz[1].user = "u1" /\ ~Sealed(1)
    /\ AttemptedCount(1) = 1

(***************************************************************************)
(* SpecAdmin: SpecSeq plus the admin site's "add quiz" form (QuizAdmin),   *)
(* where chapter and book are both optional fields (null=True, blank=True) *)
(* and total_questions is read-only, so it keeps its default 0.  The row   *)
(* is inserted only if the table's check constraint accepts it.            *)
(***************************************************************************)
QuizAdminAdd(user, chapter, book) ==
    LET created == NewQuiz(user, chapter, book, 0)
    IN  /\ quiz = <<>>
        /\ Serial
        /\ UNCHANGED <<answers, qstatus, session, req, now, sealWrites>>
        /\ IF QuizConstraint(created)
             THEN /\ quiz' = Append(quiz, created)
                  /\ resp' = Response("quiz_add", user, Len(quiz) + 1, "redirect",
                                      "changelist", -1)
             ELSE /\ quiz' = quiz
                  /\ resp' = Response("quiz_add", user, 0, "form_error",
                                      "quiz_either_chapter_or_book", -1)

AdminAdd ==
    /\ \E user \in Users, chapter \in Chapters \cup {None}, book \in Books \cup {None} :
         QuizAdminAdd(user, chapter, book)
    /\ UNCHANGED <<served, applied, batch>>

NextAdmin == AdminAdd \/ NextSeq

SpecAdmin == Init /\ [][NextAdmin]_vars

(***************************************************************************)
(* C25: every persisted Quiz has exactly one of chapter and book set.      *)
(* Creating a quiz with both set or with neither set fails and persists    *)
(* nothing; a quiz created by start_quiz has a chapter and no book, one    *)
(* created by start_book_quiz has a book and no chapter.                   *)
(***************************************************************************)
C25_ExactlyOneSource ==
    [][/\ \A id \in 1..Len(quiz') :
            (quiz'[id].chapter = None) # (quiz'[id].book = None)
       /\ \A user \in Users, chapter \in Chapters \cup {None}, book \in Books \cup {None} :
            (QuizAdminAdd(user, chapter, book) /\ ((chapter = None) = (book = None)))
              => quiz' = quiz /\ resp'.kind = "form_error"
       /\ (quiz' # quiz /\ StartQuiz) =>
            /\ Len(quiz') = Len(quiz) + 1
            /\ quiz'[Len(quiz')].chapter \in Chapters /\ quiz'[Len(quiz')].book = None
       /\ (quiz' # quiz /\ StartBookQuiz) =>
            /\ Len(quiz') = Len(quiz) + 1
            /\ quiz'[Len(quiz')].book \in Books /\ quiz'[Len(quiz')].chapter = None]_vars

C25_Witness ==
    /\ resp.view = "quiz_add" /\ resp.kind = "form_error"
    /\ resp.msg = "quiz_either_chapter_or_book"
    /\ quiz = <<>>

(***************************************************************************)
(* C26: every stored QuizAnswer has is_correct equal to whether its stored *)
(* user_answer matches the question's correct-answer label ignoring letter *)
(* case; this holds also after a re-submission has overwritten the answer. *)
(***************************************************************************)
C26_CorrectnessMatchesAnswer ==
    \A a \in answers :
        a.is_correct <=> (Lower(a.user_answer) = Lower(QuestionCorrectAnswer(a.question)))

\* a re-submission has just overwritten the answer of an attempted question
\* with an answer that differs from the label in letter case only
C26_Witness ==
    \E r \in Reqs :
        /\ req[r].action = "next" /\ req[r].pc = "next_stgoc"
        /\ qstatus[Key(r)] = "attempted"
        /\ \E a \in Rows(req[r].quiz, req[r].question) :
             /\ a.user_answer = <<"a">> /\ QuestionCorrectAnswer(a.question) = <<"A">>
             /\ a.is_correct

(***************************************************************************)
(* C27: sealing writes score, correct_answers, end_time and is_completed   *)
(* in one update.  In every reachable state a completed quiz has score and *)
(* end_time set and correct_answers is the correct count its score was     *)
(* computed from; a quiz that is not completed has none of them set; and   *)
(* the four fields only ever change together, in the sealing step.         *)
(***************************************************************************)
SealFields(q) == <<q.score, q.correct_answers, q.end_time, q.is_completed>>

C27_SealedInOneUpdate ==
    [][\A id \in 1..Len(quiz') :
         LET q == quiz'[id]
         IN  /\ q.is_completed =>
                  /\ q.score # NullScore /\ q.end_time # NullTime
                  /\ \E w \in 0..(4 * q.correct_answers) :
                       C8_IsPercentage(q.score, q.correct_answers, w, q.total_questions)
             /\ ~q.is_completed =>
                  q.score = NullScore /\ q.end_time = NullTime /\ q.correct_answers = 0
             /\ (id \in 1..Len(quiz) /\ SealFields(q) # SealFields(quiz[id])) =>
                  \E r \in Reqs :
                      /\ SealStep(r) /\ req[r].quiz = id
                      /\ q.is_completed /\ q.end_time = now'
                      /\ q.correct_answers = req[r].correct
                      /\ C8_IsPercentage(q.score, req[r].correct, req[r].wrong,
                                         q.total_questions)]_vars

C27_Witness ==
    /\ Sealed(1) /\ quiz[1].total_questions = 2
    /\ quiz[1].correct_answers = 1 /\ CorrectCount(1) = 1 /\ WrongCount(1) = 0
    /\ quiz[1].score = <<50, 1>> /\ quiz[1].end_time # NullTime

(***************************************************************************)
(* C28: between requests, for every question of a quiz's sequence, a       *)
(* QuizAnswer row exists for (quiz, question) if and only if the status of *)
(* the question is attempted or answered_and_marked, a question without a  *)
(* status record counting as unattempted.                                  *)
(***************************************************************************)
C28_AnswerIffAnsweredStatus ==
    Serial =>
      \A id \in 1..Len(quiz) : \A question \in SequenceIds(id) :
          (Rows(id, question) # {})
            <=> (LogicalStatus(qstatus[<<id, question>>])
                   \in {"attempted", "answered_and_marked"})

(***************************************************************************)
(* C29: a review mark is never lost -- once the status of a question is    *)
(* marked_for_review or answered_and_marked, it stays in                   *)
(* {marked_for_review, answered_and_marked} under every later submit,      *)
(* mark_for_review, clear_answer and jump_to on the quiz.                  *)
(***************************************************************************)
Marked == {"marked_for_review", "answered_and_marked"}

C29_MarkNeverLost ==
    [][\A k \in DOMAIN qstatus : qstatus[k] \in Marked => qstatus'[k] \in Marked]_vars

(***************************************************************************)
(* SpecLogout: SpecSeq plus the logout view.  CustomLogoutView is Django's *)
(* LogoutView, whose logout() flushes the session: every key of the user's *)
(* session is gone, the quiz keys included.                                *)
(***************************************************************************)
CustomLogoutView(user) ==
    /\ Serial
    /\ session' = [session EXCEPT ![user] = <<>>]
    /\ resp' = Response("logout", user, 0, "redirect", "home", -1)
    /\ UNCHANGED <<quiz, answers, qstatus, req, now, sealWrites>>

Logout ==
    /\ \E user \in Users : CustomLogoutView(user)
    /\ UNCHANGED <<served, applied, batch>>

NextLogout == Logout \/ NextSeq

SpecLogout == Init /\ [][NextLogout]_vars

(***************************************************************************)
(* C30: when the session store no longer holds the question sequence of an *)
(* unsealed quiz, a take-quiz request of its owner changes no answer, no   *)
(* status and no cursor and redirects to results; the sequence never comes *)
(* back into the session, so the quiz cannot be resumed; and the results   *)
(* request seals the quiz with the answers recorded so far.                *)
(***************************************************************************)
SequenceGone(id) ==
    /\ id \in 1..Len(quiz) /\ ~quiz[id].is_completed
    /\ QuestionsKey(id) \notin DOMAIN session[quiz[id].user]

C30_LostSessionEndsQuiz ==
    [][\A id \in QuizIds : SequenceGone(id) =>
         /\ \A r \in Reqs :
              (req[r].pc = "idle" /\ Serves(r, "take_quiz", quiz[id].user, id)) =>
                 /\ resp'.view = "take_quiz" /\ resp'.quiz = id
                 /\ resp'.kind = "redirect" /\ resp'.msg = "quiz_results"
                 /\ UNCHANGED <<quiz, answers, qstatus, session, req>>
         /\ QuestionsKey(id) \notin DOMAIN session'[quiz[id].user]
         /\ UNCHANGED <<answers, qstatus>>
         /\ \A r \in Reqs : (SealStep(r) /\ req[r].quiz = id) =>
              /\ quiz'[id].is_completed
              /\ quiz'[id].correct_answers = CorrectCount(id)
              /\ C8_IsPercentage(quiz'[id].score, CorrectCount(id), WrongCount(id),
                                 quiz[id].total_questions)]_vars

\* after a logout in the middle of a quiz of two questions, with one answer
\* recorded, the take-quiz request was sent to the results
C30_Witness ==
    /\ SequenceGone(1) /\ quiz[1].total_questions = 2 /\ AttemptedCount(1) = 1
    /\ resp.view = "take_quiz" /\ resp.quiz = 1
    /\ resp.kind = "redirect" /\ resp.msg = "quiz_results"

(***************************************************************************)
(* C31: for every quiz created by start_quiz or start_book_quiz,           *)
(* total_questions equals the length of the question sequence stored for   *)
(* it, and every QuizAnswer and QuizQuestionStatus row of the quiz refers  *)
(* to a question of that sequence.  The sequence is the one the session    *)
(* holds until the quiz is sealed; once it is gone, a row is only added by *)
(* a request that read its question from the sequence before.              *)
(***************************************************************************)
StatusRows(id) == {question \in QuestionIds : qstatus[<<id, question>>] # NoRow}

AnswerQuestions(id) == {a.question : a \in {x \in answers : x.quiz = id}}

\* the questions that the take_quiz requests in flight read at line 297
LoadedQuestions(id) ==
    {req[r].question : r \in {x \in Reqs : /\ req[x].pc # "idle" /\ req[x].quiz = id
                                            /\ req[x].view = "take_quiz"}}

C31_RowsWithinSequence ==
    [][\A id \in 1..Len(quiz') :
         /\ HasSession(id)' =>
              /\ quiz'[id].total_questions = Len(Sequence(id)')
              /\ AnswerQuestions(id)' \subseteq SequenceIds(id)'
              /\ StatusRows(id)' \subseteq SequenceIds(id)'
              /\ LoadedQuestions(id)' \subseteq SequenceIds(id)'
         /\ (id \in 1..Len(quiz) /\ ~HasSession(id)) =>
              /\ AnswerQuestions(id)' \subseteq AnswerQuestions(id) \cup LoadedQuestions(id)
              /\ StatusRows(id)' \subseteq StatusRows(id) \cup LoadedQuestions(id)
              /\ LoadedQuestions(id)' \subseteq LoadedQuestions(id)
         /\ id \notin 1..Len(quiz) =>
              /\ HasSession(id)'
              /\ AnswerQuestions(id)' = {} /\ StatusRows(id)' = {}]_vars

\* a quiz of one question out of two, answered and marked
C31_Witness ==
    /\ Len(quiz) = 1 /\ HasSession(1) /\ quiz[1].total_questions = 1
    /\ Sequence(1) = <<2>>
    /\ AnswerQuestions(1) = {2} /\ qstatus[<<1, 2>>] = "answered_and_marked"

(***************************************************************************)
(* SpecLive: SpecSeq with the worker running every handler it has begun to *)
(* its return statement.                                                   *)
(***************************************************************************)
SpecLive == Init /\ [][NextSeq]_vars /\ WF_vars(Steps)

(***************************************************************************)
(* C32: a quiz session terminates.  With sequence length n and cursor c,   *)
(* every submit with a non-empty answer (an answer that is not blank once  *)
(* stripped) is accepted, is served to its end, and moves the cursor by    *)
(* exactly one, so that n - c consecutive submits reach the redirect to    *)
(* results, which is sent exactly when the cursor reaches n; marking and   *)
(* clearing leave the cursor where it is.  A results request of the owner  *)
(* is served to its end with the quiz sealed, and a sealed quiz stays      *)
(* sealed forever.                                                         *)
(***************************************************************************)
Remaining(id) == Len(Sequence(id)) - Cursor(id)

C32_Terminates ==
    /\ [][\A id \in QuizIds :
            /\ \A r \in Reqs :
                 /\ \A raw \in RawAnswers, target_index \in TargetIndexes :
                      (/\ ~IsBlank(raw) /\ id \in 1..Len(quiz)
                       /\ TakeQuizLoad(r, quiz[id].user, id, "next", raw, target_index))
                        => /\ Remaining(id) >= 1
                           /\ req'[r].pc = "next_get" /\ req'[r].quiz = id
                           /\ req'[r].current_index = Cursor(id)
                 /\ (req[r].pc = "next_adv" /\ req[r].quiz = id /\ req'[r].pc = "idle") =>
                      /\ Remaining(id) >= 1
                      /\ Remaining(id)' = Remaining(id) - 1
                      /\ resp'.kind = "redirect"
                      /\ resp'.msg = IF Remaining(id)' = 0 THEN "quiz_results"
                                                           ELSE "take_quiz"
                 /\ (/\ req[r].action \in {"mark_for_review", "clear_answer"}
                     /\ req[r].quiz = id /\ req[r].pc # "idle") =>
                      Remaining(id)' = Remaining(id)
                 /\ (/\ req[r].view = "quiz_results" /\ req[r].quiz = id
                     /\ req[r].pc # "idle" /\ req'[r].pc = "idle") => Sealed(id)'
            /\ Sealed(id) => Sealed(id)']_vars
    /\ \A r \in Reqs :
         /\ (req[r].pc # "idle" /\ req[r].action = "next") ~>
              (/\ req[r].pc = "idle"
               /\ resp.view = "take_quiz" /\ resp.kind = "redirect")
         /\ (req[r].pc # "idle" /\ req[r].view = "quiz_results") ~>
              (/\ req[r].pc = "idle" /\ Sealed(1)
               /\ resp.view = "quiz_results" /\ resp.kind = "page")

\* two submits on a quiz of two questions, then the results request
C32_Witness ==
    /\ Sealed(1) /\ quiz[1].total_questions = 2 /\ AttemptedCount(1) = 2
    /\ sealWrites[1] = 1
    /\ resp.view = "quiz_results" /\ resp.kind = "page"

====
